---------------------------- MODULE Spec2Model ----------------------------
(***************************************************************************)
(* A model of the support scripts of roman_notebooks that carry logic:     *)
(*   - footprint_utils.get_survey_maps_uri           (SpecSurvey)          *)
(*   - notebook_data_dependencies._load_yaml         (SpecYaml)            *)
(*   - notebook_data_dependencies_rev1                                     *)
(*       .download_parallel_with_progress            (SpecDownload)        *)
(*   - notebook_data_dependencies_rev1                                     *)
(*       .extract_archive                            (SpecExtract)         *)
(*   - install_files and setup_env, both revisions   (SpecInstall)         *)
(* Strings the code takes apart (split, strip, endswith) are sequences of  *)
(* pieces; strings it only compares or copies are TLA+ strings.            *)
(***************************************************************************)
EXTENDS Integers, Sequences, FiniteSets, TLC

VARIABLES
    \* get_survey_maps_uri: the arguments and what the call produced
    survey_name, band, tier, uri_pc, uri_result,
    \* _load_yaml: the argument, the file system it looks at, its progress
    dependencies, local_files, script_depth, yaml_levels, github_up,
    ly_pc, ly_result,
    \* download_parallel_with_progress: the arguments, the server, the disk,
    \* the locals of the call, the futures of the pool
    total_size, server, workers, min_size_for_parallel, files,
    dl_pc, total, accept_ranges, ranges, futs, pending, errors,
    range_gets, single_sent,
    \* the installer's disk: the directories, and the files with their content
    dirs, disk,
    \* extract_archive: the archive's name, the disk before the call, the outcome
    ex_pc, ex_name, dirs_before, disk_before, ex_outcome, ex_steps,
    \* install_files and setup_env: the revision of the script, the YAML, the
    \* `packages` argument, os.environ now and at the start, the locals
    revision, yaml_cfg, packages, environ, environ_before,
    in_pc, yf, pkg_i, url_i, result, downloads, in_error

surveyVars == <<survey_name, band, tier, uri_pc, uri_result>>
yamlVars == <<dependencies, local_files, script_depth, yaml_levels, github_up,
              ly_pc, ly_result>>

dlVars == <<total_size, server, workers, min_size_for_parallel, files,
            dl_pc, total, accept_ranges, ranges, futs, pending, errors,
            range_gets, single_sent>>

diskVars == <<dirs, disk>>
exVars == <<ex_pc, ex_name, dirs_before, disk_before, ex_outcome, ex_steps>>

instVars == <<revision, yaml_cfg, packages, environ, environ_before,
              in_pc, yf, pkg_i, url_i, result, downloads, in_error>>

vars == <<surveyVars, yamlVars, dlVars, diskVars, exVars, instVars>>

None == "None"

(***************************************************************************)
(* footprint_utils.get_survey_maps_uri                                     *)
(***************************************************************************)

\* str.upper() on the strings the model draws its arguments from
Upper(s) ==
    CASE s = "hlwas" -> "HLWAS"
      [] s = "gbtds" -> "GBTDS"
      [] s = "gps" -> "GPS"
      [] s = "f158" -> "F158"
      [] s = "f146" -> "F146"
      [] s = "prism" -> "PRISM"
      [] s = "all" -> "ALL"
      [] s = "wide" -> "WIDE"
      [] s = "ultra-deep" -> "ULTRA-DEEP"
      [] OTHER -> s

\* str.lower() on the tier names
Lower(s) ==
    CASE s = "ALL" -> "all"
      [] s = "DEEP" -> "deep"
      [] s = "WIDE" -> "wide"
      [] s = "MEDIUM" -> "medium"
      [] s = "ULTRA-DEEP" -> "ultra-deep"
      [] s = "ULTRADEEP" -> "ultradeep"
      [] OTHER -> s

allowed_surveys == {"HLTDS", "HLWAS", "GBTDS", "GPS"}
allowed_bands ==
    {"F062", "F087", "F106", "F129", "F146", "F158", "F184", "F213", "PRISM", "GRISM"}
allowed_hlwas_tier == {"ALL", "DEEP", "WIDE", "MEDIUM", "ULTRA-DEEP", "ULTRADEEP"}

\* What a call produces: a returned path (its f-string pieces), a returned
\* None (the function falls off its end), or a raised ValueError (its message).
MapPath(survey_tier, b) ==
    [kind |-> "path", value |-> <<"./aux_data/map_", survey_tier, "_", b, ".hsp">>]
TierPath(s, t, b) ==
    [kind |-> "path", value |-> <<"./aux_data/map_", s, "-", t, "_", b, ".hsp">>]
ReturnsNone == [kind |-> "None", value |-> <<>>]
RaiseValueError(msg) == [kind |-> "ValueError", value |-> msg]

\* lines 268-280: the tier.upper() == 'ALL' branch
HlwasAll(b) ==
    IF Upper(b) \in {"F087", "F184", "F213"} THEN TierPath("HLWAS", "deep", "F213")
    ELSE IF Upper(b) = "F146" THEN TierPath("HLWAS", "deep", "F146")
    ELSE IF Upper(b) = "F158" THEN TierPath("HLWAS", "all", "F158")
    ELSE IF Upper(b) = "GRISM" THEN TierPath("HLWAS", "all", "GRISM")
    ELSE IF Upper(b) \in {"F106", "F129"} THEN TierPath("HLWAS", "all", "F106")
    ELSE RaiseValueError(<<"The selected element ", b, " is not available for HLWAS">>)

\* lines 233-280: the else branch of `if tier is None`, tier a string
HlwasTier(s, b, t) ==
    IF Upper(t) \notin allowed_hlwas_tier
    THEN RaiseValueError(<<"The requested tier name is not available">>)
    ELSE IF Upper(t) = "WIDE" THEN
        IF Upper(b) # "F158" THEN RaiseValueError(<<"HLWAS-WIDE only available for F158">>)
        ELSE TierPath(Upper(s), Lower(t), Upper(b))
    ELSE IF Upper(t) = "MEDIUM" THEN
        IF Upper(b) \in {"F106", "F129", "F158"} THEN TierPath(Upper(s), Lower(t), "F158")
        ELSE IF Upper(b) = "GRISM" THEN TierPath(Upper(s), Lower(t), "GRISM")
        ELSE RaiseValueError(<<"The requested element ", Upper(b),
                               " is not available for HLWAS-MEDIUM">>)
    ELSE IF Upper(t) = "DEEP" THEN
        IF Upper(b) \in {"F087", "F106", "F129", "F158", "F184", "F213"}
        THEN TierPath(Upper(s), Lower(t), "F213")
        ELSE IF Upper(b) \in {"F146", "GRISM"} THEN TierPath(Upper(s), Lower(t), Upper(b))
        ELSE RaiseValueError(<<"The requested element ", Upper(b),
                               " is not available for HLWAS-DEEP">>)
    ELSE IF Upper(t) \in {"ULTRADEEP", "ULTRA-DEEP"} THEN
        LET t2 == IF t = "ULTRA-DEEP" THEN "ULTRADEEP" ELSE t IN
        IF Upper(b) \in {"F106", "F129", "F158"} THEN TierPath(Upper(s), Lower(t2), "F158")
        ELSE RaiseValueError(<<"The requested element ", Upper(b),
                               " is not available for HLWAS-ULTRADEEP">>)
    ELSE HlwasAll(b)

\* lines 228-231: tier None warns and rebinds tier = 'ALL' inside the `if`;
\* every return of the HLWAS branch sits in the `else`, so control leaves the
\* if/elif chain and the function ends without a return statement.
HlwasNoTier(s, b) == ReturnsNone

\* lines 282-294
Hltds(s, b) ==
    IF Upper(b) = "F184" THEN MapPath("HLTDS-deep", Upper(b))
    ELSE IF Upper(b) = "F062" THEN MapPath("HLTDS-wide", Upper(b))
    ELSE IF Upper(b) \in {"PRISM", "F158", "F129", "F106", "F087"}
         THEN MapPath("HLTDS-deep+wide", Upper(b))
    ELSE RaiseValueError(<<"The requested element ", Upper(b), " is not available for HLTDS">>)

get_survey_maps_uri(s, b, t) ==
    IF Upper(s) \notin allowed_surveys
    THEN RaiseValueError(<<"The requested survey is not one of the Community defined surveys">>)
    ELSE IF Upper(b) \notin allowed_bands
    THEN RaiseValueError(<<"The requested filter element is not available on WFI">>)
    ELSE IF Upper(s) = "GBTDS" THEN
        IF b = "PRISM" THEN RaiseValueError(<<"No PRISM component available for the GBTDS">>)
        ELSE MapPath(Upper(s), Upper(b))
    ELSE IF Upper(s) = "GPS" THEN
        IF b = "F146" THEN RaiseValueError(<<"No F146 component available for the GPS">>)
        ELSE MapPath(Upper(s), Upper(b))
    ELSE IF Upper(s) = "HLWAS" THEN
        IF t = None THEN HlwasNoTier(s, b) ELSE HlwasTier(s, b, t)
    ELSE Hltds(s, b)

\* warnings.warn is reached at lines 230, 284 and 286
Warns(s, b, t) ==
    /\ Upper(s) \in allowed_surveys
    /\ Upper(b) \in allowed_bands
    /\ \/ Upper(s) = "HLWAS" /\ t = None
       \/ Upper(s) = "HLTDS"

SurveyArgs == {"HLTDS", "HLWAS", "GBTDS", "GPS", "hlwas", "gbtds", "gps", "LSST"}
BandArgs == allowed_bands \cup {"f158", "f146", "prism", "F814"}
TierArgs == allowed_hlwas_tier \cup {None, "all", "wide", "ultra-deep", "SHALLOW"}

CallSurveyMapsUri ==
    /\ uri_pc = "call"
    /\ uri_pc' = "done"
    /\ LET r == get_survey_maps_uri(survey_name, band, tier) IN
       uri_result' = [kind |-> r.kind, value |-> r.value,
                      warned |-> Warns(survey_name, band, tier)]
    /\ UNCHANGED <<survey_name, band, tier, yamlVars, dlVars, diskVars, exVars, instVars>>


(***************************************************************************)
(* notebook_data_dependencies._find_yaml and _load_yaml                    *)
(*                                                                         *)
(* The directory holding the script is level 0 and its k-th parent level   *)
(* k; the file-system root is level script_depth and is its own parent.    *)
(* yaml_levels are the levels whose directory holds a                      *)
(* refdata_dependencies.yaml; local_files are the paths, among those       *)
(* passed as `dependencies`, that exist.                                   *)
(***************************************************************************)

\* The deepest script directory the model draws
MaxDepth == 7

\* range(6) at line 19: the directory itself plus 5 parents
WalkLevels == 6

LocalPath == "my/deps.yaml"
MissingPath == "my/typo.yaml"
UrlPath == "https://host/deps.yaml"
GithubUrl ==
    "https://raw.githubusercontent.com/spacetelescope/roman_notebooks/refs/heads/main/refdata_dependencies.yaml"
DependenciesArgs == {None, "", LocalPath, MissingPath, UrlPath}

\* Python truthiness of an optional string
Truthy(s) == s # None /\ s # ""

\* os.path.exists on a `dependencies` argument; a URL names no local file
PathExists(p, existing) == p \in existing

\* Path.parent: the root is its own parent
Parent(level, depth) == IF level < depth THEN level + 1 ELSE level

\* lines 19-24: the loop of _find_yaml, `n` iterations left, at `current`;
\* <<level>> for the Path it returns, <<>> for None
RECURSIVE FindYamlFrom(_, _, _, _)
FindYamlFrom(current, n, depth, levels) ==
    IF n = 0 THEN <<>>
    ELSE IF current \in levels THEN <<current>>
    ELSE FindYamlFrom(Parent(current, depth), n - 1, depth, levels)

\* _find_yaml() with start=None: from the script's directory
find_yaml(depth, levels) == FindYamlFrom(0, WalkLevels, depth, levels)

\* line 36: the guard of the explicit-argument branch
UsesExplicit(deps, existing) == Truthy(deps) /\ PathExists(deps, existing)

yamlFs == <<dependencies, local_files, script_depth, yaml_levels, github_up>>

\* lines 35-40
LoadExplicit ==
    /\ ly_pc = "explicit"
    /\ IF UsesExplicit(dependencies, local_files)
       THEN /\ ly_result' = [source |-> "explicit", from |-> dependencies, level |-> <<>>]
            /\ ly_pc' = "done"
       ELSE /\ ly_pc' = "repo"
            /\ UNCHANGED ly_result
    /\ UNCHANGED <<yamlFs, surveyVars, dlVars, diskVars, exVars, instVars>>

\* lines 42-48
LoadRepo ==
    /\ ly_pc = "repo"
    /\ LET found == find_yaml(script_depth, yaml_levels) IN
       IF found # <<>>
       THEN /\ ly_result' = [source |-> "repo", from |-> "refdata_dependencies.yaml",
                             level |-> found]
            /\ ly_pc' = "done"
       ELSE /\ ly_pc' = "github"
            /\ UNCHANGED ly_result
    /\ UNCHANGED <<yamlFs, surveyVars, dlVars, diskVars, exVars, instVars>>

\* lines 50-57: requests.get, raise_for_status
LoadGithub ==
    /\ ly_pc = "github"
    /\ IF github_up
       THEN /\ ly_result' = [source |-> "github", from |-> GithubUrl, level |-> <<>>]
            /\ ly_pc' = "done"
       ELSE /\ ly_result' = [source |-> "HTTPError", from |-> GithubUrl, level |-> <<>>]
            /\ ly_pc' = "raised"
    /\ UNCHANGED <<yamlFs, surveyVars, dlVars, diskVars, exVars, instVars>>

(***************************************************************************)
(* notebook_data_dependencies_rev1.download_parallel_with_progress         *)
(*                                                                         *)
(* The resource is total_size bytes; byte k is the number k, so that a     *)
(* file's content shows which bytes it holds and in what order.  `files`   *)
(* maps each existing path to its content.  The calling thread moves       *)
(* through dl_pc; each submitted range download is a future run by a pool  *)
(* thread of its own (max_workers = len(ranges)), which steps              *)
(* independently of the calling thread and of the other pool threads.      *)
(***************************************************************************)

\* The longest resource, the largest `workers` argument below the cap and the
\* bytes per iter_content chunk the model draws
MaxTotal == 3
MaxWorkers == 2
ChunkSize == 2

\* line 208: workers = max(1, min(int(workers), 32))
WorkersCap == 32

Min(a, b) == IF a < b THEN a ELSE b
Max(a, b) == IF a > b THEN a ELSE b

Resource(n) == [k \in 1..n |-> k - 1]

\* What an earlier, killed run left behind under a path
StaleData == <<9, 9, 9>>

DestPath == <<"dest">>
\* line 227 / 248: f"{dest_path}.part{i:02d}"
PartPath(i) == <<"dest", ".part", i>>
IsPartPath(p) == Len(p) = 3

\* Content-Length parsed (lines 188-189): <<n>>, or <<>> for None
ParseLength(hdr) == hdr
\* line 191: `not total or total < min_size_for_parallel`
TooSmall(t, min_size) == t = <<>> \/ t[1] = 0 \/ t[1] < min_size
\* line 200: `accept_ranges and "bytes" not in accept_ranges`
RefusesRanges(ar) == ar # "" /\ ar # "bytes"

\* line 208
ClampWorkers(w) == Max(1, Min(w, WorkersCap))
\* int(total / workers): the part size rounded down
PartSizeFloor(t, w) == t \div w

\* line 210: int(math.ceil(total / workers))
PartSize(t, w) == (t + w - 1) \div w

\* lines 211-217: the loop that builds `ranges`, from index i on
RECURSIVE RangesFrom(_, _, _, _)
RangesFrom(i, w, ps, t) ==
    IF i >= w THEN <<>>
    ELSE LET start == i * ps
             end == Min(start + ps - 1, t - 1)
         IN IF start > end THEN <<>>
            ELSE <<[i |-> i, start |-> start, end |-> end]>> \o RangesFrom(i + 1, w, ps, t)

MakeRanges(t, w) == RangesFrom(0, ClampWorkers(w), PartSize(t, ClampWorkers(w)), t)

RangeIdx == {ranges[k].i : k \in 1..Len(ranges)}
RangeOf(i) == ranges[CHOOSE k \in 1..Len(ranges) : ranges[k].i = i]

\* safe_remove (lines 51-56) on the files map
SafeRemove(fs, paths) == [p \in (DOMAIN fs) \ paths |-> fs[p]]
\* open(path, "wb"): creates or truncates
OpenWb(fs, path) == [p \in (DOMAIN fs) \cup {path} |-> IF p = path THEN <<>> ELSE fs[p]]
Append2(fs, path, data) == [fs EXCEPT ![path] = @ \o data]

\* The body a server sends for GET with Range: bytes=start-end: the range
\* (206) when it honours Range, the whole resource (200) when it ignores it
RangeBody(srv, n, start, end) ==
    IF srv.honours_range THEN SubSeq(Resource(n), start + 1, Min(end + 1, n))
    ELSE Resource(n)

\* The next chunk iter_content yields of `body`, `sent` bytes already taken
NextChunk(body, sent) == SubSeq(body, sent + 1, Min(sent + ChunkSize, Len(body)))

\* _head_info (lines 126-145).  HEAD answers below 400, or fails (an
\* exception or a status >= 400) and the GET with Range: bytes=0-0 answers
\* (a one-byte 206 from a server that honours Range), or both fail: {}, 0.
HeadHeaders(srv, n) ==
    [accept |-> srv.accept_ranges,
     length |-> IF srv.sends_length THEN <<n>> ELSE <<>>]
ProbeHeaders(srv, n) ==
    [accept |-> srv.accept_ranges,
     length |-> IF ~srv.sends_length THEN <<>>
                ELSE IF srv.honours_range THEN <<Min(1, n)>> ELSE <<n>>]
NoHeaders == [accept |-> "", length |-> <<>>]
head_info(srv, n) == {HeadHeaders(srv, n), ProbeHeaders(srv, n), NoHeaders}

dlArgs == <<total_size, server, workers, min_size_for_parallel>>

\* lines 186-206
HeadInfo ==
    /\ dl_pc = "head"
    /\ \E h \in head_info(server, total_size) :
        /\ accept_ranges' = h.accept
        /\ total' = ParseLength(h.length)
        /\ dl_pc' = IF TooSmall(ParseLength(h.length), min_size_for_parallel)
                       \/ RefusesRanges(h.accept)
                    THEN "single" ELSE "plan"
    /\ UNCHANGED <<dlArgs, files, ranges, futs, pending, errors, range_gets, single_sent>>
    /\ UNCHANGED <<surveyVars, yamlVars, diskVars, exVars, instVars>>

\* lines 208-230: the ranges, and the part files and the destination removed
Plan ==
    /\ dl_pc = "plan"
    /\ ranges' = MakeRanges(total[1], workers)
    /\ files' = SafeRemove(files,
                    {PartPath(ranges'[k].i) : k \in 1..Len(ranges')} \cup {DestPath})
    /\ dl_pc' = "submit"
    /\ UNCHANGED <<dlArgs, total, accept_ranges, futs, pending, errors, range_gets,
                   single_sent>>
    /\ UNCHANGED <<surveyVars, yamlVars, diskVars, exVars, instVars>>

\* lines 244-251: every range submitted to the pool
Submit ==
    /\ dl_pc = "submit"
    /\ futs' = [i \in RangeIdx |-> [st |-> "submitted", sent |-> 0]]
    /\ pending' = RangeIdx
    /\ errors' = {}
    /\ dl_pc' = "poll"
    /\ UNCHANGED <<dlArgs, files, total, accept_ranges, ranges, range_gets, single_sent>>
    /\ UNCHANGED <<surveyVars, yamlVars, diskVars, exVars, instVars>>

workerFrame == <<dlArgs, dl_pc, total, accept_ranges, ranges, pending, errors, single_sent>>

\* _download_range_to_part lines 157-161: the GET answered, the part opened
WorkerGet(i) ==
    /\ i \in DOMAIN futs
    /\ futs[i].st = "submitted"
    /\ futs' = [futs EXCEPT ![i].st = "writing"]
    /\ range_gets' = range_gets \cup {i}
    /\ files' = OpenWb(files, PartPath(i))
    /\ UNCHANGED workerFrame
    /\ UNCHANGED <<surveyVars, yamlVars, diskVars, exVars, instVars>>

\* lines 162-167: one chunk written, or the body at its end and the future done
WorkerWrite(i) ==
    /\ i \in DOMAIN futs
    /\ futs[i].st = "writing"
    /\ LET body == RangeBody(server, total_size, RangeOf(i).start, RangeOf(i).end)
           chunk == NextChunk(body, futs[i].sent)
       IN IF chunk = <<>>
          THEN /\ futs' = [futs EXCEPT ![i].st = "done"]
               /\ UNCHANGED files
          ELSE /\ futs' = [futs EXCEPT ![i].sent = @ + Len(chunk)]
               /\ files' = Append2(files, PartPath(i), chunk)
    /\ UNCHANGED <<workerFrame, range_gets>>
    /\ UNCHANGED <<surveyVars, yamlVars, diskVars, exVars, instVars>>

\* The request fails (raise_for_status at line 160, a requests exception) or
\* the stream breaks between chunks: the future holds the exception.
WorkerFail(i) ==
    /\ i \in DOMAIN futs
    /\ futs[i].st \in {"submitted", "writing"}
    /\ futs' = [futs EXCEPT ![i].st = "failed"]
    /\ range_gets' = range_gets \cup {i}
    /\ UNCHANGED <<workerFrame, files>>
    /\ UNCHANGED <<surveyVars, yamlVars, diskVars, exVars, instVars>>

Finished(i) == futs[i].st \in {"done", "failed"}

\* `while len(pending) > 1`: the loop left with a download still running
PoolDrainedButOne(pend) == Cardinality(pend) <= 1

\* line 252: `while pending` is over
PoolDrained(pend) == pend = {}

\* lines 252-271: one turn of the polling loop
Poll ==
    /\ dl_pc = "poll"
    /\ ~PoolDrained(pending)
    /\ \E i \in pending : Finished(i)
    /\ pending' = pending \ {i \in pending : Finished(i)}
    /\ UNCHANGED <<dlArgs, files, dl_pc, total, accept_ranges, ranges, futs, errors,
                   range_gets, single_sent>>
    /\ UNCHANGED <<surveyVars, yamlVars, diskVars, exVars, instVars>>

\* lines 273-279: the loop left, every future's result taken
Collect ==
    /\ dl_pc = "poll"
    /\ PoolDrained(pending)
    /\ errors' = {i \in DOMAIN futs : futs[i].st = "failed"}
    /\ dl_pc' = IF errors' # {} THEN "cleanup" ELSE "stitch"
    /\ UNCHANGED <<dlArgs, files, total, accept_ranges, ranges, futs, pending,
                   range_gets, single_sent>>
    /\ UNCHANGED <<surveyVars, yamlVars, diskVars, exVars, instVars>>

\* lines 279-287: parts removed, single stream instead
Cleanup ==
    /\ dl_pc = "cleanup"
    /\ files' = SafeRemove(files, {PartPath(i) : i \in RangeIdx})
    /\ dl_pc' = "single"
    /\ UNCHANGED <<dlArgs, total, accept_ranges, ranges, futs, pending, errors,
                   range_gets, single_sent>>
    /\ UNCHANGED <<surveyVars, yamlVars, diskVars, exVars, instVars>>

\* lines 291-295: the parts copied to the destination in the order of
\* part_paths, each removed once copied
RECURSIVE StitchFrom(_, _, _)
StitchFrom(fs, k, rs) ==
    IF k > Len(rs) THEN fs
    ELSE StitchFrom(SafeRemove(Append2(fs, DestPath, fs[PartPath(rs[k].i)]),
                               {PartPath(rs[k].i)}),
                    k + 1, rs)

StitchParts(fs, rs) == StitchFrom(OpenWb(fs, DestPath), 1, rs)

Stitch ==
    /\ dl_pc = "stitch"
    /\ files' = StitchParts(files, ranges)
    /\ dl_pc' = "done"
    /\ UNCHANGED <<dlArgs, total, accept_ranges, ranges, futs, pending, errors,
                   range_gets, single_sent>>
    /\ UNCHANGED <<surveyVars, yamlVars, diskVars, exVars, instVars>>

\* download_with_progress lines 75-86: the GET answered, the destination opened
SingleGet ==
    /\ dl_pc = "single"
    /\ files' = OpenWb(files, DestPath)
    /\ single_sent' = 0
    /\ dl_pc' = "single_write"
    /\ UNCHANGED <<dlArgs, total, accept_ranges, ranges, futs, pending, errors, range_gets>>
    /\ UNCHANGED <<surveyVars, yamlVars, diskVars, exVars, instVars>>

\* lines 87-91
SingleWrite ==
    /\ dl_pc = "single_write"
    /\ LET chunk == NextChunk(Resource(total_size), single_sent) IN
       IF chunk = <<>>
       THEN /\ dl_pc' = "done"
            /\ UNCHANGED <<files, single_sent>>
       ELSE /\ files' = Append2(files, DestPath, chunk)
            /\ single_sent' = single_sent + Len(chunk)
            /\ UNCHANGED dl_pc
    /\ UNCHANGED <<dlArgs, total, accept_ranges, ranges, futs, pending, errors, range_gets>>
    /\ UNCHANGED <<surveyVars, yamlVars, diskVars, exVars, instVars>>

\* raise_for_status at line 76 or a broken stream: the exception leaves the call
SingleFail ==
    /\ dl_pc \in {"single", "single_write"}
    /\ dl_pc' = "raised"
    /\ UNCHANGED <<dlArgs, files, total, accept_ranges, ranges, futs, pending, errors,
                   range_gets, single_sent>>
    /\ UNCHANGED <<surveyVars, yamlVars, diskVars, exVars, instVars>>

(***************************************************************************)
(* notebook_data_dependencies_rev1.extract_archive                         *)
(*                                                                         *)
(* A file name is its stem followed by its suffixes, "bundle.tar.gz"      *)
(* being <<"bundle", ".tar", ".gz">>; a path is the pieces of its string.  *)
(* A file's content says whether it is gzip-compressed, whether it is      *)
(* (once decompressed) a tar archive, and which directories the tar holds. *)
(* The tar's members are named apart from the archive itself.              *)
(***************************************************************************)

\* The most suffixes a file name carries
MaxSuffixes == 2

Suffixes == {".tar", ".gz", ".tgz", ".zip"}
MemberDirs == {"data", "extra"}

EmptyFile == [gzipped |-> FALSE, tar |-> FALSE, members |-> {}]
Contents ==
    {c \in [gzipped : BOOLEAN, tar : BOOLEAN, members : SUBSET MemberDirs] :
        ~c.tar => c.members = {}}

\* str.endswith on a name and a suffix, both as pieces
EndsWith(name, suffix) ==
    /\ Len(name) >= Len(suffix)
    /\ SubSeq(name, Len(name) - Len(suffix) + 1, Len(name)) = suffix

\* path.endswith((".tar", ".tgz")): the ".tar.gz" of line 320 forgotten
IsTarNameNoTarGz(name) == EndsWith(name, <<".tar">>) \/ EndsWith(name, <<".tgz">>)

\* line 320: path.endswith((".tar", ".tar.gz", ".tgz"))
IsTarName(name) ==
    \/ EndsWith(name, <<".tar">>)
    \/ EndsWith(name, <<".tar", ".gz">>)
    \/ EndsWith(name, <<".tgz">>)

\* line 327: path.endswith(".gz")
IsGzName(name) == EndsWith(name, <<".gz">>)

\* os.path.join(dir, name)
JoinPath(dir, name) == dir \o <<"/">> \o name

\* line 334: os.path.join(dest, os.path.basename(path[:-3]))
GunzipTarget(dest, name) == JoinPath(dest, SubSeq(name, 1, Len(name) - 1))

\* tar.extractall(dest): dest and each member directory exist afterwards
TarExtractAll(ds, dest, content) ==
    ds \cup {dest} \cup {JoinPath(dest, <<m>>) : m \in content.members}

\* gzip.open(...).read(): the content without its compression
Gunzip(content) == [content EXCEPT !.gzipped = FALSE]

WriteFile(fs, path, content) ==
    [p \in (DOMAIN fs) \cup {path} |-> IF p = path THEN content ELSE fs[p]]

\* lines 327-353: the branch of a name that ends in ".gz"
ExtractGz(name, dest, ds, fs) ==
    LET content == fs[JoinPath(dest, name)]
        out_file == GunzipTarget(dest, name)
        made == ds \cup {dest}
    IN  IF out_file \in ds
        THEN [dirs |-> made, disk |-> fs, outcome |-> "IsADirectoryError", steps |-> <<>>]
        ELSE IF ~content.gzipped
        THEN [dirs |-> made, disk |-> WriteFile(fs, out_file, EmptyFile),
              outcome |-> "BadGzipFile", steps |-> <<>>]
        ELSE IF Gunzip(content).tar
        THEN [dirs |-> TarExtractAll(made, dest, Gunzip(content)),
              disk |-> SafeRemove(WriteFile(fs, out_file, Gunzip(content)), {out_file}),
              outcome |-> "ok", steps |-> <<"gunzip", "untar", "remove">>]
        ELSE [dirs |-> made, disk |-> WriteFile(fs, out_file, Gunzip(content)),
              outcome |-> "ok", steps |-> <<"gunzip">>]

\* lines 310-355
extract_archive(name, dest, ds, fs) ==
    IF IsTarName(name)
    THEN IF fs[JoinPath(dest, name)].tar
         THEN [dirs |-> TarExtractAll(ds, dest, fs[JoinPath(dest, name)]), disk |-> fs,
               outcome |-> "ok", steps |-> <<"untar">>]
         ELSE [dirs |-> ds, disk |-> fs, outcome |-> "ReadError", steps |-> <<>>]
    ELSE IF IsGzName(name) THEN ExtractGz(name, dest, ds, fs)
    ELSE [dirs |-> ds, disk |-> fs, outcome |-> "RuntimeError", steps |-> <<>>]

DestDir == <<"dest">>

ExtractCall ==
    /\ ex_pc = "call"
    /\ LET r == extract_archive(ex_name, DestDir, dirs, disk) IN
        /\ dirs' = r.dirs
        /\ disk' = r.disk
        /\ ex_outcome' = r.outcome
        /\ ex_steps' = r.steps
    /\ ex_pc' = "done"
    /\ UNCHANGED <<ex_name, dirs_before, disk_before>>
    /\ UNCHANGED <<surveyVars, yamlVars, dlVars, instVars>>

(***************************************************************************)
(* install_files and setup_env, notebook_data_dependencies.py ("base") and *)
(* notebook_data_dependencies_rev1.py ("rev1")                             *)
(*                                                                         *)
(* A YAML key and the `packages` string are sequences of characters, so    *)
(* that split(',') and strip() work on them as in the code.  A value of    *)
(* os.environ, like a path, is the pieces of its string; <<>> is ''.       *)
(* os.environ maps the variables that are set.  yaml_cfg holds the         *)
(* install_files section in the order of its keys, and other_variables.    *)
(***************************************************************************)

\* The most data URLs a package of the YAML lists
MaxUrls == 1

Sentinel == <<"***unset***">>

\* os.environ.get(k, default)
EnvGet(env, k, default) == IF k \in DOMAIN env THEN env[k] ELSE default

\* str.replace('${HOME}', home) on the pieces of a path
RECURSIVE ReplaceHome(_, _)
ReplaceHome(path, home) ==
    IF path = <<>> THEN <<>>
    ELSE (IF Head(path) = "${HOME}" THEN home ELSE <<Head(path)>>)
         \o ReplaceHome(Tail(path), home)

\* str.split(','): the pieces between the commas
RECURSIVE SplitComma(_)
SplitComma(str) ==
    IF \A k \in 1..Len(str) : str[k] # ","
    THEN <<str>>
    ELSE LET c == CHOOSE k \in 1..Len(str) :
                      str[k] = "," /\ \A j \in 1..(k - 1) : str[j] # ","
         IN <<SubSeq(str, 1, c - 1)>> \o SplitComma(SubSeq(str, c + 1, Len(str)))

\* str.strip()
RECURSIVE Strip(_)
Strip(str) ==
    IF str = <<>> THEN <<>>
    ELSE IF Head(str) = " " THEN Strip(Tail(str))
    ELSE IF str[Len(str)] = " " THEN Strip(SubSeq(str, 1, Len(str) - 1))
    ELSE str

SeqToSet(q) == {q[k] : k \in 1..Len(q)}
\* [p.strip() for p in pieces]
StripAll(q) == [k \in 1..Len(q) |-> Strip(q[k])]
RECURSIVE FilterSeq(_, _)
FilterSeq(q, keep) ==
    IF q = <<>> THEN <<>>
    ELSE (IF Head(q) \in keep THEN <<Head(q)>> ELSE <<>>) \o FilterSeq(Tail(q), keep)

\* `if packages:` (base line 93, rev1 line 385)
PackagesTruthy(arg) ==
    \/ arg.type = "list" /\ arg.list # <<>>
    \/ arg.type = "str" /\ arg.str # <<>>

\* base lines 94-95, rev1 lines 386-387: the names `k in packages` is tested on
PackageNames(rev, arg) ==
    IF arg.type = "str"
    THEN IF rev = "base"
         THEN SeqToSet(StripAll(SplitComma(arg.str)))
         ELSE SeqToSet(StripAll(SplitComma(arg.str))) \ {<<>>}
    ELSE SeqToSet(arg.list)

\* base lines 93-96, rev1 lines 385-390: the keys install_files goes through
FilterPackages(rev, keys, arg) ==
    IF PackagesTruthy(arg) THEN FilterSeq(keys, PackageNames(rev, arg)) ELSE keys

YamlKeys(cfg) == [k \in 1..Len(cfg.install_files) |-> cfg.install_files[k].key]
Info(cfg, key) ==
    cfg.install_files[CHOOSE k \in 1..Len(cfg.install_files) : cfg.install_files[k].key = key]

\* base line 98, rev1 line 394; HOME is set in every run of the model
HomeOf(env) == EnvGet(env, "HOME", <<>>)

\* base line 116, rev1 line 414
EnvPath(cfg, key, env) == ReplaceHome(Info(cfg, key).install_path, HomeOf(env))
\* base line 135, rev1 line 448: os.path.join(env_path, data_path)
FullPath(cfg, key, env) == JoinPath(EnvPath(cfg, key, env), <<Info(cfg, key).data_path>>)

\* `existing == '***unset***'` for `!=`: the test of the sentinel inverted
IsConfiguredInverted(rev, env, envvar) ==
    IF rev = "base"
    THEN EnvGet(env, envvar, <<>>) # <<>> /\ EnvGet(env, envvar, <<>>) = Sentinel
    ELSE envvar \in DOMAIN env /\ env[envvar] = Sentinel

\* base lines 105-106: existing and existing != '***unset***';
\* rev1 lines 401-409: os.environ[envvar] found and != '***unset***'
IsConfigured(rev, env, envvar) ==
    IF rev = "base"
    THEN EnvGet(env, envvar, <<>>) # <<>> /\ EnvGet(env, envvar, <<>>) # Sentinel
    ELSE envvar \in DOMAIN env /\ env[envvar] # Sentinel

SetResult(res, envvar, path, pre) ==
    [k \in (DOMAIN res) \cup {envvar} |->
        IF k = envvar THEN [path |-> path, pre_installed |-> pre] ELSE res[k]]

\* rev1 line 452 without the check: every path is taken as it comes
DirCheckSkipped(rev, full_path, ds) == TRUE

\* rev1 lines 452-457: os.path.isdir(full_path), else RuntimeError; the base
\* revision (lines 135-139) does not look
DirCheck(rev, full_path, ds) == rev = "base" \/ full_path \in ds

instArgs == <<revision, yaml_cfg, packages, environ, environ_before>>

\* rev1 lines 371-382: the YAML from the local file, or fetched from the URL
\* (the default argument is the GitHub main-branch URL)
Rev1Load ==
    /\ ly_pc = "rev1"
    /\ LET deps == IF dependencies = None THEN GithubUrl ELSE dependencies IN
       IF PathExists(deps, local_files)
       THEN /\ ly_result' = [source |-> "explicit", from |-> deps, level |-> <<>>]
            /\ ly_pc' = "done"
       ELSE IF deps \in {UrlPath, GithubUrl} /\ github_up
       THEN /\ ly_result' = [source |-> "url", from |-> deps, level |-> <<>>]
            /\ ly_pc' = "done"
       ELSE /\ ly_result' = [source |-> "RequestException", from |-> deps, level |-> <<>>]
            /\ ly_pc' = "raised"
    /\ UNCHANGED <<yamlFs, surveyVars, dlVars, diskVars, exVars, instVars>>

\* base lines 89-99, rev1 lines 384-395: the YAML loaded (or not), the filter
InstallFilter ==
    /\ in_pc = "load"
    /\ ly_pc \in {"done", "raised"}
    /\ IF ly_pc = "raised"
       THEN /\ in_pc' = "raised"
            /\ in_error' = ly_result.source
            /\ UNCHANGED <<yf, pkg_i>>
       ELSE /\ yf' = FilterPackages(revision, YamlKeys(yaml_cfg), packages)
            /\ pkg_i' = 1
            /\ in_pc' = "pkg"
            /\ UNCHANGED in_error
    /\ UNCHANGED <<instArgs, url_i, result, downloads>>
    /\ UNCHANGED <<surveyVars, yamlVars, dlVars, diskVars, exVars>>

\* base lines 101-123, rev1 lines 397-420: the head of the loop over yf
PkgCheck ==
    /\ in_pc = "pkg"
    /\ pkg_i <= Len(yf)
    /\ LET envvar == Info(yaml_cfg, yf[pkg_i]).environment_variable IN
       IF IsConfigured(revision, environ, envvar)
       THEN /\ result' = SetResult(result, envvar, environ[envvar], TRUE)
            /\ pkg_i' = pkg_i + 1
            /\ UNCHANGED <<in_pc, url_i, dirs>>
       ELSE /\ dirs' = dirs \cup {EnvPath(yaml_cfg, yf[pkg_i], environ)}
            /\ url_i' = 1
            /\ in_pc' = "fetch"
            /\ UNCHANGED <<result, pkg_i>>
    /\ UNCHANGED <<instArgs, yf, downloads, in_error, disk>>
    /\ UNCHANGED <<surveyVars, yamlVars, dlVars, exVars>>

\* What a server may send for a data URL: a gzipped tar with the data
\* directory, one without it, gzipped data that is no tar, or no archive at
\* all (an error page, a broken download)
ServedContents ==
    {[gzipped |-> TRUE, tar |-> TRUE, members |-> {"data"}],
     [gzipped |-> TRUE, tar |-> TRUE, members |-> {"extra"}],
     [gzipped |-> TRUE, tar |-> FALSE, members |-> {}],
     [gzipped |-> FALSE, tar |-> FALSE, members |-> {}]}

CwdPath(name) == <<".", "/">> \o name
TmpPath(env_path, name) == JoinPath(env_path, <<".download.">> \o name \o <<".tmp">>)

\* base lines 124-133: requests.get, the body written to the working
\* directory, tarfile.open / extractall(env_path), os.remove
BaseFetch(name, env_path, content, ds, fs) ==
    IF content.tar
    THEN [dirs |-> TarExtractAll(ds, env_path, content), disk |-> fs, outcome |-> "ok"]
    ELSE [dirs |-> ds, disk |-> WriteFile(fs, CwdPath(name), content),
          outcome |-> "ReadError"]

\* rev1 lines 431-445 after a download that returned: os.replace(tmp, final),
\* extract_archive(final, env_path), safe_remove(final)
Rev1Fetch(name, env_path, content, ds, fs) ==
    LET final == JoinPath(env_path, name)
        placed == WriteFile(SafeRemove(fs, {TmpPath(env_path, name), final}), final, content)
        r == extract_archive(name, env_path, ds, placed)
    IN  IF r.outcome = "ok"
        THEN [dirs |-> r.dirs, disk |-> SafeRemove(r.disk, {final}), outcome |-> "ok"]
        ELSE [dirs |-> r.dirs, disk |-> r.disk, outcome |-> r.outcome]

\* base lines 124-133, rev1 lines 422-445: one data URL downloaded and
\* extracted.  The download of rev1 is download_parallel_with_progress, run
\* here to its end: it returns with the file, or raises.
PkgFetch ==
    /\ in_pc = "fetch"
    /\ url_i <= Len(Info(yaml_cfg, yf[pkg_i]).data_url)
    /\ downloads' = downloads \cup {<<yf[pkg_i], url_i>>}
    /\ LET name == Info(yaml_cfg, yf[pkg_i]).data_url[url_i]
           env_path == EnvPath(yaml_cfg, yf[pkg_i], environ)
       IN \/ \E content \in ServedContents :
              LET r == IF revision = "base"
                       THEN BaseFetch(name, env_path, content, dirs, disk)
                       ELSE Rev1Fetch(name, env_path, content, dirs, disk)
              IN /\ dirs' = r.dirs
                 /\ disk' = r.disk
                 /\ IF r.outcome = "ok"
                    THEN /\ url_i' = url_i + 1
                         /\ UNCHANGED <<in_pc, in_error>>
                    ELSE /\ in_pc' = "raised"
                         /\ in_error' = r.outcome
                         /\ UNCHANGED url_i
          \/ /\ in_pc' = "raised"
             /\ in_error' = "RequestException"
             /\ disk' = IF revision = "rev1"
                        THEN WriteFile(disk, TmpPath(env_path, name), EmptyFile)
                        ELSE disk
             /\ UNCHANGED <<url_i, dirs>>
    /\ UNCHANGED <<instArgs, yf, pkg_i, result>>
    /\ UNCHANGED <<surveyVars, yamlVars, dlVars, exVars>>

\* base lines 135-139, rev1 lines 447-463: the end of the loop body
PkgFinish ==
    /\ in_pc = "fetch"
    /\ url_i > Len(Info(yaml_cfg, yf[pkg_i]).data_url)
    /\ LET full_path == FullPath(yaml_cfg, yf[pkg_i], environ) IN
       IF DirCheck(revision, full_path, dirs)
       THEN /\ result' = SetResult(result, Info(yaml_cfg, yf[pkg_i]).environment_variable,
                                  full_path, FALSE)
            /\ pkg_i' = pkg_i + 1
            /\ in_pc' = "pkg"
            /\ UNCHANGED in_error
       ELSE /\ in_pc' = "raised"
            /\ in_error' = "RuntimeError: expected directory not created"
            /\ UNCHANGED <<result, pkg_i>>
    /\ UNCHANGED <<instArgs, yf, url_i, downloads>>
    /\ UNCHANGED <<surveyVars, yamlVars, dlVars, diskVars, exVars>>

\* base line 141, rev1 line 465: return result
InstallReturn ==
    /\ in_pc = "pkg"
    /\ pkg_i > Len(yf)
    /\ in_pc' = "returned"
    /\ UNCHANGED <<instArgs, yf, pkg_i, url_i, result, downloads, in_error>>
    /\ UNCHANGED <<surveyVars, yamlVars, dlVars, diskVars, exVars>>

\* base lines 165-167, rev1 lines 474-476
ApplyResult(env, res) ==
    [k \in (DOMAIN env) \cup {v \in DOMAIN res : ~res[v].pre_installed} |->
        IF k \in DOMAIN res /\ ~res[k].pre_installed THEN res[k].path ELSE env[k]]

\* the loop of lines 177-180 without `if not os.environ.get(k)`
ApplyOtherAlways(env, other) ==
    [k \in (DOMAIN env) \cup (DOMAIN other) |->
        IF k \in DOMAIN other THEN ReplaceHome(other[k], HomeOf(env)) ELSE env[k]]

\* base lines 176-180: other_variables set where os.environ.get(k) is falsy
ApplyOther(env, other) ==
    [k \in (DOMAIN env) \cup (DOMAIN other) |->
        IF k \in DOMAIN other /\ EnvGet(env, k, <<>>) = <<>>
        THEN ReplaceHome(other[k], HomeOf(env)) ELSE env[k]]

\* base lines 172-173: yaml_path = dependencies or _find_yaml(), and it exists
SetupReadsYaml(deps, existing, depth, levels) ==
    IF Truthy(deps) THEN PathExists(deps, existing) ELSE find_yaml(depth, levels) # <<>>

\* base lines 148-184, rev1 lines 471-478
setup_env(rev, res, env, cfg, deps, existing, depth, levels) ==
    IF rev = "base" /\ SetupReadsYaml(deps, existing, depth, levels)
    THEN ApplyOther(ApplyResult(env, res), cfg.other_variables)
    ELSE ApplyResult(env, res)

\* setup_env(result), called as `__main__` does on what install_files returned
SetupEnv ==
    /\ in_pc = "returned"
    /\ environ' = setup_env(revision, result, environ, yaml_cfg, dependencies,
                            local_files, script_depth, yaml_levels)
    /\ in_pc' = "env_done"
    /\ UNCHANGED <<revision, yaml_cfg, packages, environ_before, yf, pkg_i, url_i,
                   result, downloads, in_error>>
    /\ UNCHANGED <<surveyVars, yamlVars, dlVars, diskVars, exVars>>

(***************************************************************************)
(* Initial states and specifications.  Each specification runs one part of *)
(* the repository; the variables of the other parts stay idle.             *)
(***************************************************************************)

IdleSurvey ==
    /\ survey_name = "HLWAS"
    /\ band = "F158"
    /\ tier = None
    /\ uri_pc = "idle"
    /\ uri_result = [kind |-> "pending", value |-> <<>>, warned |-> FALSE]

IdleYaml ==
    /\ dependencies = None
    /\ local_files = {}
    /\ script_depth = 0
    /\ yaml_levels = {}
    /\ github_up = TRUE
    /\ ly_pc = "idle"
    /\ ly_result = [source |-> "pending", from |-> None, level |-> <<>>]

IdleDownload ==
    /\ total_size = 0
    /\ server = [accept_ranges |-> "", honours_range |-> FALSE, sends_length |-> FALSE]
    /\ workers = 1
    /\ min_size_for_parallel = 1
    /\ files = <<>>
    /\ dl_pc = "idle"
    /\ total = <<>>
    /\ accept_ranges = ""
    /\ ranges = <<>>
    /\ futs = <<>>
    /\ pending = {}
    /\ errors = {}
    /\ range_gets = {}
    /\ single_sent = 0

RECURSIVE SeqsUpTo(_, _)
SeqsUpTo(S, n) ==
    IF n = 0 THEN {<<>>}
    ELSE SeqsUpTo(S, n - 1) \cup {Append(q, x) : q \in SeqsUpTo(S, n - 1), x \in S}

IdleDisk ==
    /\ dirs = {}
    /\ disk = <<>>

IdleExtract ==
    /\ ex_pc = "idle"
    /\ ex_name = <<"bundle">>
    /\ dirs_before = {}
    /\ disk_before = <<>>
    /\ ex_outcome = "pending"
    /\ ex_steps = <<>>

IdleInstall ==
    /\ revision = "base"
    /\ yaml_cfg = [install_files |-> <<>>, other_variables |-> <<>>]
    /\ packages = [type |-> "None", list |-> <<>>, str |-> <<>>]
    /\ environ = <<>>
    /\ environ_before = <<>>
    /\ in_pc = "idle"
    /\ yf = <<>>
    /\ pkg_i = 0
    /\ url_i = 0
    /\ result = <<>>
    /\ downloads = {}
    /\ in_error = ""

InitSurvey ==
    /\ survey_name \in SurveyArgs
    /\ band \in BandArgs
    /\ tier \in TierArgs
    /\ uri_pc = "call"
    /\ uri_result = [kind |-> "pending", value |-> <<>>, warned |-> FALSE]
    /\ IdleYaml
    /\ IdleDownload
    /\ IdleDisk
    /\ IdleExtract
    /\ IdleInstall

InitYamlFs ==
    /\ dependencies \in DependenciesArgs
    /\ local_files \in {{}, {LocalPath}}
    /\ MissingPath \notin local_files
    /\ script_depth \in 0..MaxDepth
    /\ yaml_levels \in SUBSET (0..script_depth)
    /\ github_up \in BOOLEAN

InitYaml ==
    /\ InitYamlFs
    /\ ly_pc = "explicit"
    /\ ly_result = [source |-> "pending", from |-> None, level |-> <<>>]
    /\ IdleSurvey
    /\ IdleDownload
    /\ IdleDisk
    /\ IdleExtract
    /\ IdleInstall


(***************************************************************************)
(* get_survey_maps_uri                                                     *)
(***************************************************************************)

NextSurvey == CallSurveyMapsUri

SpecSurvey == InitSurvey /\ [][NextSurvey]_vars

\* C10: a call for survey HLWAS with tier None warns and produces, for every
\* band, what the call with tier = 'ALL' produces: the same path or the same
\* ValueError.
C10_NoTierIsAllTiers ==
    (uri_pc = "done" /\ Upper(survey_name) = "HLWAS" /\ tier = None)
    => /\ Upper(band) \in allowed_bands => uri_result.warned
       /\ uri_result.kind = get_survey_maps_uri(survey_name, band, "ALL").kind
       /\ uri_result.value = get_survey_maps_uri(survey_name, band, "ALL").value

(***************************************************************************)
(* _load_yaml                                                              *)
(***************************************************************************)

NextYaml == LoadExplicit \/ LoadRepo \/ LoadGithub

SpecYaml == InitYaml /\ [][NextYaml]_vars

\* The nearest level, among the script's directory and its first 5 parents,
\* that holds a refdata_dependencies.yaml
WalkedLevels == {l \in 0..script_depth : l <= WalkLevels - 1}
NearestYaml == CHOOSE l \in yaml_levels \cap WalkedLevels :
                   \A m \in yaml_levels \cap WalkedLevels : l <= m

\* C6: _load_yaml resolves in a fixed order: an explicit path or URL that is
\* given (and can be read) is what the configuration is loaded from;
\* otherwise the nearest refdata_dependencies.yaml among the script's
\* directory and at most 5 parents; only when neither is available the
\* GitHub main-branch URL.
C6_ResolutionOrder ==
    ly_pc = "done" =>
        IF Truthy(dependencies) /\ (dependencies \in local_files \/ dependencies = UrlPath)
        THEN ly_result = [source |-> "explicit", from |-> dependencies, level |-> <<>>]
        ELSE IF yaml_levels \cap WalkedLevels # {}
        THEN ly_result = [source |-> "repo", from |-> "refdata_dependencies.yaml",
                          level |-> <<NearestYaml>>]
        ELSE ly_result = [source |-> "github", from |-> GithubUrl, level |-> <<>>]

(***************************************************************************)
(* download_parallel_with_progress                                         *)
(***************************************************************************)

\* The servers: one that advertises and honours byte ranges, one that honours
\* them without the header, one that ignores Range and says nothing, one that
\* says "none"; each with or without a Content-Length.
Servers ==
    {s \in [accept_ranges : {"", "bytes", "none"}, honours_range : BOOLEAN,
            sends_length : BOOLEAN] :
        /\ s.accept_ranges = "bytes" => s.honours_range
        /\ s.accept_ranges = "none" => ~s.honours_range}

WorkerArgs == (0..MaxWorkers) \cup {WorkersCap + 8}
MinSizeArgs == {1, 3}

\* What a killed earlier run of the same call may have left: a destination
\* and part files under the names this call uses
StaleFiles(n, w) ==
    [p \in {DestPath} \cup {PartPath(i) : i \in 0..(Len(MakeRanges(Max(n, 1), w)) - 1)}
        |-> StaleData]

InitDownload ==
    /\ total_size \in 0..MaxTotal
    /\ server \in Servers
    /\ workers \in WorkerArgs
    /\ min_size_for_parallel \in MinSizeArgs
    /\ files \in {<<>>, StaleFiles(total_size, workers)}
    /\ dl_pc = "head"
    /\ total = <<>>
    /\ accept_ranges = ""
    /\ ranges = <<>>
    /\ futs = <<>>
    /\ pending = {}
    /\ errors = {}
    /\ range_gets = {}
    /\ single_sent = 0
    /\ IdleSurvey
    /\ IdleYaml
    /\ IdleDisk
    /\ IdleExtract
    /\ IdleInstall

NextDownload ==
    \/ HeadInfo
    \/ Plan
    \/ Submit
    \/ \E i \in 0..(WorkersCap - 1) : WorkerGet(i)
    \/ \E i \in 0..(WorkersCap - 1) : WorkerWrite(i)
    \/ \E i \in 0..(WorkersCap - 1) : WorkerFail(i)
    \/ Poll
    \/ Collect
    \/ Cleanup
    \/ Stitch
    \/ SingleGet
    \/ SingleWrite
    \/ SingleFail

SpecDownload == InitDownload /\ [][NextDownload]_vars

PartFiles == {p \in DOMAIN files : IsPartPath(p)}
Running == {i \in DOMAIN futs : futs[i].st \in {"submitted", "writing"}}

\* The threads of the program at work: the calling thread while the call
\* runs, and every pool thread streaming its range
Streaming == {i \in DOMAIN futs : futs[i].st = "writing"}
ThreadsAtWork ==
    (IF dl_pc \in {"idle", "done", "raised"} THEN 0 ELSE 1) + Cardinality(Streaming)

\* C1 as stated: at no time does more than one thread of the program do work,
\* the downloads of install_files included.
C1_SingleThreaded == ThreadsAtWork <= 1

\* C1 as amended: pool threads run only inside the pool block of
\* download_parallel_with_progress (while the calling thread polls), one per
\* byte range and so at most min(max(workers, 1), 32) of them; they have all
\* finished before the call stitches, falls back to a single stream or
\* returns, and those phases run on the calling thread alone.
C1_ThreadsOnlyInPool ==
    /\ dl_pc # "poll" => Running = {}
    /\ Cardinality(Running) <= Len(ranges)
    /\ Len(ranges) <= ClampWorkers(workers)
    /\ ClampWorkers(workers) <= WorkersCap

C1_TwoPoolThreadsStreaming == dl_pc = "poll" /\ Cardinality(Streaming) >= 2

\* C2: when the server does not support Range requests or the content length
\* is unknown, no per-part Range download is ever issued.
C2_NoRangeWithoutSupport ==
    (~server.honours_range \/ ~server.sends_length) => range_gets = {}

\* C3: for a server that honours Range and reports the resource's length as
\* Content-Length, at or above min_size_for_parallel, a call that returns
\* leaves the destination holding bytes 0..total-1 in order and no part file,
\* whatever the worker count and the order in which the parts complete.
C3_ParallelDownloadExact ==
    (/\ dl_pc = "done"
     /\ server.honours_range
     /\ total = <<total_size>>
     /\ total_size >= min_size_for_parallel)
    => /\ DestPath \in DOMAIN files
       /\ files[DestPath] = Resource(total_size)
       /\ PartFiles = {}

\* a download stitched from three parts or more, none of which failed
C3_StitchedOutOfOrder ==
    /\ dl_pc = "done"
    /\ server.honours_range
    /\ total = <<total_size>>
    /\ total_size >= min_size_for_parallel
    /\ Len(ranges) >= 3
    /\ errors = {}
    /\ single_sent = 0
    /\ files[DestPath] = Resource(total_size)

(***************************************************************************)
(* extract_archive                                                         *)
(***************************************************************************)

ArchiveNames == {<<"bundle">> \o sfx : sfx \in SeqsUpTo(Suffixes, MaxSuffixes)}

\* The disk before the call: the archive in dest, and under the name the
\* gunzipped file would take nothing, a file of an earlier run, or a directory
InitExtract ==
    /\ ex_pc = "call"
    /\ ex_name \in ArchiveNames
    /\ \E c \in Contents, old \in {"nothing", "file", "directory"} :
        /\ disk = IF old = "file" /\ Len(ex_name) > 1
                  THEN WriteFile(WriteFile(<<>>, GunzipTarget(DestDir, ex_name), EmptyFile),
                                 JoinPath(DestDir, ex_name), c)
                  ELSE WriteFile(<<>>, JoinPath(DestDir, ex_name), c)
        /\ dirs = IF old = "directory" /\ Len(ex_name) > 1
                  THEN {DestDir, GunzipTarget(DestDir, ex_name)}
                  ELSE {DestDir}
    /\ dirs_before = dirs
    /\ disk_before = disk
    /\ ex_outcome = "pending"
    /\ ex_steps = <<>>
    /\ IdleSurvey
    /\ IdleYaml
    /\ IdleDownload
    /\ IdleInstall

NextExtract == ExtractCall

SpecExtract == InitExtract /\ [][NextExtract]_vars

ExArchive == disk_before[JoinPath(DestDir, ex_name)]
ExLast == ex_name[Len(ex_name)]
ExStem == SubSeq(ex_name, 1, Len(ex_name) - 1)
ExNamedTar ==
    \/ ExLast \in {".tar", ".tgz"}
    \/ ExLast = ".gz" /\ Len(ex_name) > 2 /\ ex_name[Len(ex_name) - 1] = ".tar"
ExNamedGz == ExLast = ".gz" /\ ~ExNamedTar
ExMembers == {DestDir \o <<"/", m>> : m \in ExArchive.members}

\* C9: extract_archive dispatches on the file name.  A .tar, .tar.gz or .tgz
\* that is a tar is extracted directly into dest, no file written; any other
\* .gz that is gzip data is gunzipped to dest/<name without .gz>, then, when
\* that is a tar, extracted and the intermediate file removed, and otherwise
\* left in place with the decompressed content; any other name raises
\* RuntimeError and leaves dest as it was.
C9_ExtractDispatch ==
    ex_pc = "done" =>
        IF ExNamedTar
        THEN IF ExArchive.tar
             THEN /\ ex_outcome = "ok"
                  /\ ex_steps = <<"untar">>
                  /\ dirs = dirs_before \cup ExMembers
                  /\ disk = disk_before
             ELSE ex_outcome = "ReadError" /\ dirs = dirs_before /\ disk = disk_before
        ELSE IF ExNamedGz
        THEN (ExArchive.gzipped /\ (DestDir \o <<"/">> \o ExStem) \notin dirs_before) =>
                /\ ex_outcome = "ok"
                /\ IF ExArchive.tar
                   THEN /\ dirs = dirs_before \cup ExMembers
                        /\ (DestDir \o <<"/">> \o ExStem) \notin DOMAIN disk
                        /\ ex_steps = <<"gunzip", "untar", "remove">>
                   ELSE /\ dirs = dirs_before
                        /\ (DestDir \o <<"/">> \o ExStem) \in DOMAIN disk
                        /\ disk[DestDir \o <<"/">> \o ExStem] =
                               [gzipped |-> FALSE, tar |-> FALSE, members |-> {}]
                        /\ ex_steps = <<"gunzip">>
        ELSE ex_outcome = "RuntimeError" /\ dirs = dirs_before /\ disk = disk_before

\* a gzipped tar without the .tar in its name went through the gunzip branch
C9_GunzippedTarExtracted ==
    /\ ex_pc = "done"
    /\ ExNamedGz
    /\ ExArchive.gzipped /\ ExArchive.tar /\ ExArchive.members # {}
    /\ ex_steps = <<"gunzip", "untar", "remove">>
    /\ ExMembers \subseteq dirs

(***************************************************************************)
(* install_files, then setup_env on its result                             *)
(***************************************************************************)

KeyA == <<"a">>
KeyB == <<"b">>

UrlNames == {<<"bundle", ".tar", ".gz">>, <<"bundle", ".gz">>, <<"bundle", ".zip">>}

\* The YAML: package a under ${HOME} with up to MaxUrls data URLs, package b
\* with one; other_variables with CRDS_PATH, and in some configurations with
\* a variable that install_files also manages.
YamlConfigs ==
    {[install_files |->
        <<[key |-> KeyA, environment_variable |-> "A_PATH",
           install_path |-> <<"${HOME}", "/refdata/a">>, data_url |-> urls,
           data_path |-> "data"],
          [key |-> KeyB, environment_variable |-> "B_PATH",
           install_path |-> <<"/opt/refdata/b">>,
           data_url |-> <<<<"bundle", ".tar", ".gz">>>>, data_path |-> "data"]>>,
      other_variables |-> other] :
        urls \in SeqsUpTo(UrlNames, MaxUrls),
        other \in {("CRDS_PATH" :> <<"${HOME}", "/crds">>),
                   ("CRDS_PATH" :> <<"${HOME}", "/crds">>) @@ ("B_PATH" :> <<"/other/b">>)}}

Unset == <<"<unset>">>
MkEnv(a, b, c) ==
    LET all == [k \in {"HOME", "A_PATH", "B_PATH", "CRDS_PATH"} |->
                   CASE k = "HOME" -> <<"/home/u">>
                     [] k = "A_PATH" -> a
                     [] k = "B_PATH" -> b
                     [] OTHER -> c]
    IN [k \in {v \in DOMAIN all : all[v] # Unset} |-> all[k]]

Environs ==
    {MkEnv(a, b, c) : a \in {Unset, <<>>, Sentinel, <<"/opt/a">>},
                      b \in {Unset, <<"/opt/b">>},
                      c \in {Unset, <<>>, <<"/my/crds">>}}

\* None; the lists [], ['b'], ['a', 'z']; the strings '', 'b', ' a, b', 'a,'
PackagesArgs ==
    {[type |-> "None", list |-> <<>>, str |-> <<>>],
     [type |-> "list", list |-> <<>>, str |-> <<>>],
     [type |-> "list", list |-> <<KeyB>>, str |-> <<>>],
     [type |-> "list", list |-> <<KeyA, <<"z">>>>, str |-> <<>>],
     [type |-> "str", list |-> <<>>, str |-> <<>>],
     [type |-> "str", list |-> <<>>, str |-> <<"b">>],
     [type |-> "str", list |-> <<>>, str |-> <<" ", "a", ",", " ", "b">>],
     [type |-> "str", list |-> <<>>, str |-> <<"a", ",">>]}

InitInstall ==
    /\ revision \in {"base", "rev1"}
    /\ yaml_cfg \in YamlConfigs
    /\ packages \in PackagesArgs
    /\ environ \in Environs
    /\ environ_before = environ
    /\ in_pc = "load"
    /\ yf = <<>>
    /\ pkg_i = 0
    /\ url_i = 0
    /\ result = <<>>
    /\ downloads = {}
    /\ in_error = ""
    /\ dependencies \in {None, LocalPath, UrlPath}
    /\ local_files = {LocalPath}
    /\ script_depth = 0
    /\ yaml_levels \in {{}, {0}}
    /\ github_up = TRUE
    /\ ly_pc = IF revision = "base" THEN "explicit" ELSE "rev1"
    /\ ly_result = [source |-> "pending", from |-> None, level |-> <<>>]
    /\ IdleDisk
    /\ IdleSurvey
    /\ IdleDownload
    /\ IdleExtract

NextInstall ==
    \/ LoadExplicit
    \/ LoadRepo
    \/ LoadGithub
    \/ Rev1Load
    \/ InstallFilter
    \/ PkgCheck
    \/ PkgFetch
    \/ PkgFinish
    \/ InstallReturn
    \/ SetupEnv

SpecInstall == InitInstall /\ [][NextInstall]_vars

Returned == in_pc \in {"returned", "env_done"}
Entries == SeqToSet(yaml_cfg.install_files)
UserSet(v) ==
    v \in DOMAIN environ_before /\ environ_before[v] # <<>> /\ environ_before[v] # Sentinel
Fresh == {v \in DOMAIN result : ~result[v].pre_installed}
Kept == {v \in DOMAIN result : result[v].pre_installed}

\* C4: install_files of either revision leaves a configured package alone:
\* when its variable is set to a non-empty value other than '***unset***',
\* nothing is downloaded or extracted for it, and the result holds
\* {path: that value, pre_installed: True} for the variable.
C4_RespectsConfigured ==
    \A e \in Entries :
        UserSet(e.environment_variable) =>
            /\ \A d \in downloads : d[1] # e.key
            /\ ReplaceHome(e.install_path, <<"/home/u">>) \notin dirs
            /\ (Returned /\ e.key \in SeqToSet(yf)) =>
                  /\ e.environment_variable \in DOMAIN result
                  /\ result[e.environment_variable] =
                         [path |-> environ_before[e.environment_variable],
                          pre_installed |-> TRUE]

\* one package found configured, the other downloaded and installed
C4_OneKeptOneInstalled == in_pc = "returned" /\ Kept # {} /\ Fresh # {} /\ downloads # {}

\* C5: with a list of strings or a comma-separated string as `packages`, the
\* result has entries only for, and downloads happen only for, the packages
\* named in it; only packages=None installs everything.
C5_OnlyNamedPackages ==
    (in_pc = "returned" /\ packages.type # "None") =>
        /\ \A e \in Entries :
              e.environment_variable \in DOMAIN result
                  => e.key \in PackageNames(revision, packages)
        /\ \A d \in downloads : d[1] \in PackageNames(revision, packages)

OtherKeys == DOMAIN yaml_cfg.other_variables
WasEmpty(k) == k \notin DOMAIN environ_before \/ environ_before[k] = <<>>
Expanded(k) == ReplaceHome(yaml_cfg.other_variables[k], <<"/home/u">>)
SameAsBefore(k) ==
    IF k \in DOMAIN environ_before
    THEN k \in DOMAIN environ /\ environ[k] = environ_before[k]
    ELSE k \notin DOMAIN environ

YamlOnDisk ==
    IF Truthy(dependencies) THEN dependencies \in local_files
    ELSE yaml_levels \cap WalkedLevels # {}

C8_NoPathToNowhere ==
    revision = "rev1" =>
        /\ Returned => \A v \in Fresh : result[v].path \in dirs
        /\ in_error = "RuntimeError: expected directory not created" =>
              /\ in_pc = "raised"
              /\ FullPath(yaml_cfg, yf[pkg_i], environ) \notin dirs

\* rev1 returned a freshly installed package whose data directory exists
C8_FreshPathExists ==
    /\ revision = "rev1"
    /\ in_pc = "returned"
    /\ \E v \in Fresh : result[v].path \in dirs
    /\ downloads # {}

=============================================================================
